---- MODULE Spec2Model ----
(***************************************************************************)
(* Model of core/embed/rust/src/ui/display/loader.rs: the circular loader  *)
(* (progress indicator) renderer, its progress-to-vector geometry, its     *)
(* per-pixel antialiasing classifier, the software rasterizer and the      *)
(* dma2d (hardware) rasterizer with its ping-pong line buffers.            *)
(***************************************************************************)
EXTENDS Integers, Sequences, FiniteSets, TLC

VARIABLES
    \* ---- get_loader_vectors applied to one input (geometry model) ----
    v_pc, v_progress, v_indet, v_result, v_lookups, v_flags,
    \* ---- loader_get_pixel_color_idx applied to one pixel / swept over d ----
    c_pc, c_args, c_res, s_member, s_d, s_val, s_prev, s_peaked,
    \* ---- one render call chain: loader_uncompress -> loader_rust ----
    dma2d,          \* build feature: TRUE = hardware backend, FALSE = software backend
    r, progress, indeterminate, icon,   \* arguments of loader_uncompress
    pc,             \* position of the thread of control
    icon_arg,       \* the icon argument loader_uncompress hands to loader_rust
    uncompressed,   \* ctx.uncompress was called
    y_c,            \* row loop variable
    icon_buffer,    \* "empty" (empty_line) or "ib" (icon_buffer_used) for the current row
    b, ib,          \* loader line buffers b1/b2 and icon line buffers ib1/ib2, by slot 0/1
    fresh,          \* byte indices of the loader buffer written by the current row
    inflight,       \* transfers started and not yet completed by the engine
    ops,            \* engine operations issued by this call, in order
    lines,          \* what each dma2d_start_blend submitted
    wlog,           \* every write into a line buffer, with the engine's state at that time
    issued,         \* slots used as source of a transfer since the last blocking wait
    used,           \* slots used as source of a transfer since the call began
    out,            \* output stream of the current call
    call, out1      \* call number (1 or 2) and the output stream of the first call

vecvars == <<v_pc, v_progress, v_indet, v_result, v_lookups, v_flags>>
pixvars == <<c_pc, c_args, c_res, s_member, s_d, s_val, s_prev, s_peaked>>
inputs == <<dma2d, r, progress, indeterminate, icon>>
rvars == <<inputs, pc, icon_arg, uncompressed, y_c, icon_buffer, b, ib, fresh, inflight,
           ops, lines, wlog, issued, used, out, call, out1>>
vars == <<vecvars, pixvars, rvars>>

(***************************************************************************)
(* Rust integer arithmetic: / truncates toward zero, % keeps the sign of   *)
(* the dividend, `as u8` keeps the low eight bits.                         *)
(***************************************************************************)
TruncDiv(a, m) == IF a >= 0 THEN a \div m ELSE -((-a) \div m)
RustRem(a, m) == a - m * TruncDiv(a, m)
U8(x) == x % 256
Max(a, m) == IF a >= m THEN a ELSE m
Min(a, m) == IF a <= m THEN a ELSE m

(***************************************************************************)
(* Configuration constants (ui::constant of the 240x240 colour model).     *)
(***************************************************************************)
LOADER_OUTER == 60
LOADER_INNER == 42
LOADER_ICON_MAX_SIZE == 64
WIDTH == 240
HEIGHT == 240

LOADER_MIN == 0
LOADER_MAX == 1000
LOADER_SIZE == LOADER_OUTER * 2
OUTER == LOADER_OUTER
INNER == LOADER_INNER
ICON_MAX_SIZE == LOADER_ICON_MAX_SIZE
LOADER_INDETERMINATE_WIDTH == 100

\* ((R + k/2) * (R + k/2)) as i32, for an integral radius R and odd k
SqHalf(R, k) == ((2 * R + k) * (2 * R + k)) \div 4
IN_INNER_ANTI == SqHalf(INNER, -1)
INNER_MIN == SqHalf(INNER, 1)
INNER_MAX == SqHalf(INNER, 3)
INNER_OUTER_ANTI == SqHalf(INNER, 5)
OUTER_OUT_ANTI == SqHalf(OUTER, -3)
OUTER_MAX == SqHalf(OUTER, -1)

(***************************************************************************)
(* Geometry collaborators (ui::geometry, ui::display).                     *)
(***************************************************************************)
Pt(x, y) == [x |-> x, y |-> y]
PointZero == Pt(0, 0)

Octagon == << Pt(0, 1000), Pt(707, 707), Pt(1000, 0), Pt(707, -707),
              Pt(0, -1000), Pt(-707, -707), Pt(-1000, 0), Pt(-707, 707) >>

\* angle -> direction on the octagon, linear interpolation inside a sector
get_vector(angle0) ==
    LET angle == RustRem(angle0, 360)
        sector_length == 360 \div 8
        sector == TruncDiv(angle, sector_length)
        sector_angle == RustRem(angle, sector_length)
    IN  IF sector \notin 0..7 THEN [panic |-> "index out of bounds"]
        ELSE LET v1 == Octagon[sector + 1]
                 v2 == Octagon[((sector + 1) % 8) + 1]
             IN  Pt(v1.x + TruncDiv((v2.x - v1.x) * sector_angle, sector_length),
                    v1.y + TruncDiv((v2.y - v1.y) * sector_angle, sector_length))

is_clockwise_or_equal(n_v1, v2) == (v2.x * n_v1.x + v2.y * n_v1.y) < 0
is_clockwise_or_equal_inc(n_v1, v2) == (v2.x * n_v1.x + v2.y * n_v1.y) <= 0

(***************************************************************************)
(* get_loader_vectors                                                      *)
(***************************************************************************)
\* the two scaled angles <<start, end>>
loader_angles(ind, p) ==
    LET start_progress == IF ind THEN p - LOADER_INDETERMINATE_WIDTH ELSE 0
        end_progress == IF ind THEN p + LOADER_INDETERMINATE_WIDTH ELSE p
    IN  << RustRem(TruncDiv(360 * start_progress, 1000), 360),
           RustRem(TruncDiv(360 * end_progress, 1000), 360) >>

\* the swap test with >= in place of >
Swap_mut(p) == p >= 500
Swap(p) == p > 500

\* the degrees handed to display::get_vector, in the order <<for start_vector, for end_vector>>
loader_lookups(ind, p) ==
    LET a == loader_angles(ind, p)
    IN  IF ind THEN << a[1], a[2] >>
        ELSE IF p >= 1000 THEN << >>
        ELSE IF Swap(p) THEN << a[2], a[1] >>
        ELSE << a[1], a[2] >>

get_loader_vectors(ind, p) ==
    LET lk == loader_lookups(ind, p)
    IN  IF lk = << >> THEN << PointZero, PointZero >>
        ELSE << get_vector(lk[1]), get_vector(lk[2]) >>

ShowAll(ind, p) == (~ind) /\ p >= 1000
Inverted(ind, p) == (~ind) /\ p > 500
NStart(start_vector) == Pt(-start_vector.y, start_vector.x)

(***************************************************************************)
(* loader_get_pixel_color_idx                                              *)
(***************************************************************************)
\* the active part with the outer ramp scaled by 10 instead of 15
ActivePart_mut(d) ==
    IF d <= IN_INNER_ANTI THEN 0
    ELSE IF d <= INNER_MIN THEN U8(TruncDiv(15 * (d - IN_INNER_ANTI), INNER_MIN - IN_INNER_ANTI))
    ELSE IF d <= OUTER_OUT_ANTI THEN 15
    ELSE IF d <= OUTER_MAX THEN U8(15 - TruncDiv(10 * (d - OUTER_OUT_ANTI), OUTER_MAX - OUTER_OUT_ANTI))
    ELSE 0

ActivePart(d) ==
    IF d <= IN_INNER_ANTI THEN 0
    ELSE IF d <= INNER_MIN THEN U8(TruncDiv(15 * (d - IN_INNER_ANTI), INNER_MIN - IN_INNER_ANTI))
    ELSE IF d <= OUTER_OUT_ANTI THEN 15
    ELSE IF d <= OUTER_MAX THEN U8(15 - TruncDiv(15 * (d - OUTER_OUT_ANTI), OUTER_MAX - OUTER_OUT_ANTI))
    ELSE 0

\* the inactive part without its leading d <= IN_INNER_ANTI test
InactivePart_mut(d) ==
    IF d <= INNER_MIN THEN U8(TruncDiv(15 * (d - IN_INNER_ANTI), INNER_MIN - IN_INNER_ANTI))
    ELSE IF d <= INNER_MAX THEN 15
    ELSE IF d <= INNER_OUTER_ANTI THEN U8(15 - TruncDiv(10 * (d - INNER_MAX), INNER_OUTER_ANTI - INNER_MAX))
    ELSE IF d <= OUTER_OUT_ANTI THEN 5
    ELSE IF d <= OUTER_MAX THEN U8(5 - U8(TruncDiv(5 * (d - OUTER_OUT_ANTI), OUTER_MAX - OUTER_OUT_ANTI)))
    ELSE 0

InactivePart(d) ==
    IF d <= IN_INNER_ANTI THEN 0
    ELSE IF d <= INNER_MIN THEN U8(TruncDiv(15 * (d - IN_INNER_ANTI), INNER_MIN - IN_INNER_ANTI))
    ELSE IF d <= INNER_MAX THEN 15
    ELSE IF d <= INNER_OUTER_ANTI THEN U8(15 - TruncDiv(10 * (d - INNER_MAX), INNER_OUTER_ANTI - INNER_MAX))
    ELSE IF d <= OUTER_OUT_ANTI THEN 5
    ELSE IF d <= OUTER_MAX THEN U8(5 - U8(TruncDiv(5 * (d - OUTER_OUT_ANTI), OUTER_MAX - OUTER_OUT_ANTI)))
    ELSE 0

PixelDist(xc, yc, center) ==
    LET y_p == -(yc - center.y)
        x_p == xc - center.x
    IN  y_p * y_p + x_p * x_p

Included(inverted, end_vector, n_start, xc, yc, center) ==
    LET y_p == -(yc - center.y)
        x_p == xc - center.x
        vx == Pt(x_p, y_p)
        n_vx == Pt(-y_p, x_p)
    IN  IF inverted
        THEN (~is_clockwise_or_equal(n_start, vx)) \/ (~is_clockwise_or_equal_inc(n_vx, end_vector))
        ELSE is_clockwise_or_equal(n_start, vx) /\ is_clockwise_or_equal_inc(n_vx, end_vector)

\* the band lookup with its two branches exchanged
BandLookup_mut(show_all, included, d) ==
    IF show_all \/ included THEN InactivePart(d) ELSE ActivePart(d)
BandLookup(show_all, included, d) ==
    IF show_all \/ included THEN ActivePart(d) ELSE InactivePart(d)

loader_get_pixel_color_idx(show_all, inverted, end_vector, n_start, xc, yc, center) ==
    BandLookup(show_all,
               Included(inverted, end_vector, n_start, xc, yc, center),
               PixelDist(xc, yc, center))

(***************************************************************************)
(* Rect / Point / Offset utilities (ui::geometry) and the screen.          *)
(***************************************************************************)
Rect(x0, y0, x1, y1) == [x0 |-> x0, y0 |-> y0, x1 |-> x1, y1 |-> y1]
RectZero == Rect(0, 0, 0, 0)
from_top_left_and_size(p, size) == Rect(p.x, p.y, p.x + size.x, p.y + size.y)
from_center_and_size(p, size) ==
    from_top_left_and_size(Pt(p.x - TruncDiv(size.x, 2), p.y - TruncDiv(size.y, 2)), size)
RectCenter(a) == Pt(TruncDiv(a.x0 + a.x1, 2), TruncDiv(a.y0 + a.y1, 2))
RectClamp(a, limit) ==
    Rect(Max(a.x0, limit.x0), Max(a.y0, limit.y0), Min(a.x1, limit.x1), Min(a.y1, limit.y1))
RectContains(a, p) == a.x0 <= p.x /\ p.x < a.x1 /\ a.y0 <= p.y /\ p.y < a.y1
RectWidth(a) == a.x1 - a.x0
screen == Rect(0, 0, WIDTH, HEIGHT)

(***************************************************************************)
(* Colours and colour tables (ui::display).  A colour is either one of the *)
(* caller's colours or a blend of two of them at a level 1..14.            *)
(***************************************************************************)
Pure(c) == [lo |-> c, hi |-> c, level |-> 0]
Lerp(bg, fg, i) ==
    IF i = 0 THEN Pure(bg) ELSE IF i = 15 THEN Pure(fg) ELSE [lo |-> bg, hi |-> fg, level |-> i]
\* get_color_table(fg, bg)[i]
ColorTable(fg, bg, i) == Lerp(bg, fg, i)
Dirty == Pure("pixeldata_dirty")
FG == "fg"
BG == "bg"
ICON == "icon"

(***************************************************************************)
(* Icons.  The input of loader_uncompress is a TOIF blob, described by     *)
(* what toif_info and the decompressor make of it.                         *)
(***************************************************************************)
NoIcon == [some |-> FALSE, header_ok |-> TRUE, format |-> "GrayScaleEH",
           width |-> 0, height |-> 0, inflate_ok |-> TRUE, seed |-> 0]
Toif(header_ok, format, w, h, inflate_ok, seed) ==
    [some |-> TRUE, header_ok |-> header_ok, format |-> format,
     width |-> w, height |-> h, inflate_ok |-> inflate_ok, seed |-> seed]
NoIconArg == [some |-> FALSE, width |-> 0, height |-> 0, seed |-> 0]

\* icon_data[i] after decompression into the zeroed ICON_MAX_SIZE^2/2 byte array
IconByte(ia, i) ==
    IF i >= 0 /\ i < (ia.width * ia.height) \div 2 THEN (ia.seed + 17 * i) % 256 ELSE 0

\* the size test of loader_uncompress, with only the width tested
IconFitsHeader_mut(ic) == ic.width <= ICON_MAX_SIZE
IconFitsHeader(ic) == ic.width <= ICON_MAX_SIZE /\ ic.height <= ICON_MAX_SIZE
IconFitsSize(ia) == ia.width <= ICON_MAX_SIZE /\ ia.height <= ICON_MAX_SIZE

(***************************************************************************)
(* Locals of loader_rust that are fixed by its arguments.                  *)
(***************************************************************************)
Clamped == RectClamp(r, screen)
Center == RectCenter(r)
UseIcon == icon_arg.some /\ IconFitsSize(icon_arg)
IconWidth == IF UseIcon THEN icon_arg.width ELSE 0
IconArea ==
    IF UseIcon THEN from_center_and_size(Center, Pt(icon_arg.width, icon_arg.height)) ELSE RectZero
IconAreaClamped == IF UseIcon THEN RectClamp(IconArea, screen) ELSE RectZero
IconOffset == IF UseIcon THEN TruncDiv(IconAreaClamped.x0 - r.x0, 2) ELSE 0
StartVector == get_loader_vectors(indeterminate, progress)[1]
EndVector == get_loader_vectors(indeterminate, progress)[2]

PixIdx(xc, y_c0) ==
    loader_get_pixel_color_idx(ShowAll(indeterminate, progress), Inverted(indeterminate, progress),
                               EndVector, NStart(StartVector), xc, y_c0, Center)

Lo(byte) == byte % 16
Hi(byte) == byte \div 16
Nibble(buf, col) == IF col % 2 = 0 THEN Lo(buf[col \div 2]) ELSE Hi(buf[col \div 2])

(***************************************************************************)
(* Software rasterizer: one row of the pixel loop.                         *)
(***************************************************************************)
IsIconPixel(xc, y_c0) ==
    /\ UseIcon
    /\ RectContains(IconAreaClamped, Pt(xc, y_c0))
    /\ (xc - Center.x) * (xc - Center.x) + (y_c0 - Center.y) * (y_c0 - Center.y) <= IN_INNER_ANTI

IconPixelColor(xc, y_c0) ==
    LET x_i == xc - IconArea.x0
        y_i == y_c0 - IconArea.y0
        data == IconByte(icon_arg, TruncDiv((x_i - (x_i % 2)) + y_i * IconWidth, 2))
    IN  IF x_i % 2 = 0 THEN ColorTable(ICON, BG, Lo(data)) ELSE ColorTable(ICON, BG, Hi(data))

SwPixel(xc, y_c0) ==
    IF IsIconPixel(xc, y_c0) THEN IconPixelColor(xc, y_c0)
    ELSE IF RectContains(Clamped, Pt(xc, y_c0)) THEN ColorTable(FG, BG, PixIdx(xc, y_c0))
    ELSE Pure(BG)

SwRowPixels(y_c0) ==
    IF r.x1 <= r.x0 THEN << >> ELSE [ k \in 1..(r.x1 - r.x0) |-> SwPixel(r.x0 + k - 1, y_c0) ]

(***************************************************************************)
(* Hardware rasterizer: buffers, slots and the transfer engine.            *)
(***************************************************************************)
LINE_BUFFER_4BPP_SIZE == WIDTH \div 2

\* bytes of a line buffer the engine reads for a transfer of r.width() pixels
LineBytes == IF r.x1 <= r.x0 THEN 0 ELSE (RectWidth(r) + 1) \div 2
ByteIdx == 0..(LineBytes - 1)
FilledWith(v) == [ s \in 0..1 |-> [ i \in ByteIdx |-> v ] ]

\* ping-pong slot chosen per pair of rows instead of per row
BufferSlot_mut(y) == IF RustRem(TruncDiv(y, 2), 2) = 0 THEN 0 ELSE 1
BufferSlot(y) == IF RustRem(y, 2) = 0 THEN 0 ELSE 1

\* dma2d_wait_for_transfer returning without waiting
TransferDone_mut == TRUE
TransferDone == inflight = {}

IconRow == UseIcon /\ y_c >= IconAreaClamped.y0 /\ y_c < IconAreaClamped.y1
IconCopyPanics == IconOffset < 0 \/ IconOffset + TruncDiv(IconWidth, 2) > LINE_BUFFER_4BPP_SIZE

\* packed line of the pixel loop: byte i holds columns 2i (low) and 2i+1 (high);
\* a byte is written when the odd column is reached
PackedByte(i) ==
    LET prev == IF RectContains(Clamped, Pt(r.x0 + 2 * i, y_c)) THEN PixIdx(r.x0 + 2 * i, y_c) ELSE 0
        cur == IF RectContains(Clamped, Pt(r.x0 + 2 * i + 1, y_c)) THEN PixIdx(r.x0 + 2 * i + 1, y_c) ELSE 0
    IN  U8(prev + U8(cur * 16))
WrittenBytes == { i \in ByteIdx : 2 * i + 1 < RectWidth(r) }

Busy(kind, slot) == \E t \in inflight : IF kind = "b" THEN t.loader = slot ELSE t.icon = slot
WriteEvent(kind, slot) ==
    [kind |-> kind, slot |-> slot, row |-> y_c,
     busy |-> Busy(kind, slot),
     unwaited |-> (<<kind, slot>> \in issued),
     reuse |-> (<<kind, slot>> \in used),
     overlap |-> (inflight # {})]

\* one output pixel of the 4bpp-over-4bpp blend: the icon nibble is the
\* opacity of the icon colour over the loader gradient
Blend(a, l) == IF a = 15 THEN [icon |-> 15, loader |-> 0] ELSE [icon |-> a, loader |-> l]
BlendLine(t) ==
    IF t.width <= 0 THEN << >>
    ELSE [ k \in 1..t.width |->
             Blend(IF t.icon = 2 THEN 0 ELSE Nibble(ib[t.icon], k - 1), Nibble(b[t.loader], k - 1)) ]

(***************************************************************************)
(* Render model: loader_uncompress and the two loader_rust variants.       *)
(***************************************************************************)
MaxW == 3
MaxH == 3
RectWidths == (0..MaxW) \cup {LOADER_SIZE}
RectHeights == 0..MaxH
RectX0 == {-1, 4}
RectY0 == {-1, 0}
ProgressSamples == {0, 501, 1000, 1001}
IconSamples ==
    { NoIcon,
      Toif(TRUE, "GrayScaleEH", 4, 3, TRUE, 165),
      Toif(TRUE, "GrayScaleEH", ICON_MAX_SIZE + 1, 2, TRUE, 165),
      Toif(TRUE, "GrayScaleEH", 2, ICON_MAX_SIZE + 1, TRUE, 165),
      Toif(TRUE, "GrayScaleEH", 4, 2, FALSE, 165),
      Toif(TRUE, "FullColorLE", 4, 2, TRUE, 165),
      Toif(FALSE, "GrayScaleEH", 4, 2, TRUE, 165) }
\* what a loader buffer acquired without clearing may hold
StaleBytes == {0, 165}

PixIdle ==
    /\ c_pc = "off" /\ c_args = << >> /\ c_res = 0
    /\ s_member = FALSE /\ s_d = 0 /\ s_val = 0 /\ s_prev = 0 /\ s_peaked = FALSE
VecIdle ==
    /\ v_pc = "off" /\ v_progress = 0 /\ v_indet = FALSE
    /\ v_result = << >> /\ v_lookups = << >> /\ v_flags = << >>

RenderIdle ==
    /\ dma2d = FALSE /\ r = RectZero /\ progress = 0 /\ indeterminate = FALSE /\ icon = NoIcon
    /\ pc = "off" /\ icon_arg = NoIconArg /\ uncompressed = FALSE /\ y_c = 0
    /\ icon_buffer = "empty" /\ b = << >> /\ ib = << >> /\ fresh = {}
    /\ inflight = {} /\ ops = << >> /\ lines = << >> /\ wlog = {} /\ issued = {} /\ used = {}
    /\ out = << >> /\ call = 0 /\ out1 = << >>

Init ==
    /\ VecIdle /\ PixIdle
    /\ dma2d \in BOOLEAN
    /\ \E x0 \in RectX0, y0 \in RectY0, w \in RectWidths, h \in RectHeights :
           r = from_top_left_and_size(Pt(x0, y0), Pt(w, h))
    /\ progress \in ProgressSamples
    /\ indeterminate \in BOOLEAN
    /\ icon \in IconSamples
    /\ pc = "uncompress" /\ icon_arg = NoIconArg /\ uncompressed = FALSE /\ y_c = 0
    /\ icon_buffer = "empty"
    /\ \E v \in StaleBytes : b = FilledWith(v)
    /\ ib = FilledWith(0)
    /\ fresh = {}
    /\ inflight = {} /\ ops = << >> /\ lines = << >> /\ wlog = {} /\ issued = {} /\ used = {}
    /\ out = << >> /\ call = 1 /\ out1 = << >>

\* loader_uncompress: header checks, size test, decompression, dispatch
LoaderUncompress ==
    /\ pc = "uncompress"
    /\ IF icon.some /\ ~icon.header_ok
       THEN pc' = "fatal" /\ UNCHANGED <<icon_arg, uncompressed>>
       ELSE IF icon.some /\ icon.format # "GrayScaleEH"
       THEN pc' = "fatal" /\ UNCHANGED <<icon_arg, uncompressed>>
       ELSE IF icon.some /\ IconFitsHeader(icon)
       THEN /\ uncompressed' = TRUE
            /\ IF icon.inflate_ok
               THEN /\ icon_arg' = [some |-> TRUE, width |-> icon.width,
                                    height |-> icon.height, seed |-> icon.seed]
                    /\ pc' = "setup"
               ELSE pc' = "fatal" /\ UNCHANGED icon_arg
       ELSE /\ icon_arg' = NoIconArg
            /\ pc' = "setup"
            /\ UNCHANGED uncompressed
    /\ UNCHANGED <<inputs, y_c, icon_buffer, b, ib, fresh, inflight, ops, lines, wlog,
                   issued, used, out, call, out1, vecvars, pixvars>>

\* software loader_rust up to the pixel loop
SetupSoftware ==
    /\ pc = "setup" /\ ~dma2d
    /\ pc' = "sw_row"
    /\ y_c' = r.y0
    /\ UNCHANGED <<inputs, icon_arg, uncompressed, icon_buffer, b, ib, fresh, inflight, ops,
                   lines, wlog, issued, used, out, call, out1, vecvars, pixvars>>

\* one iteration of the outer loop of the software loader_rust, or its exit
SwRow ==
    /\ pc = "sw_row"
    /\ IF y_c < r.y1
       THEN /\ out' = out \o SwRowPixels(y_c)
            /\ y_c' = y_c + 1
            /\ pc' = pc
       ELSE /\ pc' = "sw_flush"
            /\ UNCHANGED <<out, y_c>>
    /\ UNCHANGED <<inputs, icon_arg, uncompressed, icon_buffer, b, ib, fresh, inflight, ops,
                   lines, wlog, issued, used, call, out1, vecvars, pixvars>>

\* display::pixeldata_dirty()
SwFlush ==
    /\ pc = "sw_flush"
    /\ out' = Append(out, Dirty)
    /\ pc' = "done"
    /\ UNCHANGED <<inputs, icon_arg, uncompressed, y_c, icon_buffer, b, ib, fresh, inflight, ops,
                   lines, wlog, issued, used, call, out1, vecvars, pixvars>>

\* hardware loader_rust up to the row loop: the loader buffers are acquired
\* as they are, the icon buffers and the empty line are acquired cleared
\* (the clearing is a write into both icon slots)
SetupDma2d ==
    /\ pc = "setup" /\ dma2d
    /\ pc' = "row"
    /\ y_c' = r.y0
    /\ b' \in {b} \cup (IF call = 1 THEN {} ELSE { FilledWith(v) : v \in StaleBytes })
    /\ ib' = FilledWith(0)
    /\ wlog' = wlog \cup { [WriteEvent("ib", s) EXCEPT !.kind = "clear"] : s \in 0..1 }
    /\ UNCHANGED <<inputs, icon_arg, uncompressed, icon_buffer, fresh, inflight, ops,
                   lines, issued, used, out, call, out1, vecvars, pixvars>>

\* head of a row: loop exit test, buffer selection, icon row copy
RowIcon ==
    /\ pc = "row"
    /\ IF y_c >= r.y1
       THEN pc' = "final_wait" /\ UNCHANGED <<icon_buffer, ib, wlog>>
       ELSE IF IconRow
       THEN IF IconCopyPanics
            THEN pc' = "fatal" /\ UNCHANGED <<icon_buffer, ib, wlog>>
            ELSE LET s == BufferSlot(y_c)
                     n == TruncDiv(IconWidth, 2)
                     y_i == y_c - IconArea.y0
                 IN  /\ ib' = [ib EXCEPT ![s] =
                                  [ i \in ByteIdx |->
                                      IF i >= IconOffset /\ i < IconOffset + n
                                      THEN IconByte(icon_arg, y_i * n + (i - IconOffset))
                                      ELSE ib[s][i] ]]
                     /\ wlog' = IF n > 0 THEN wlog \cup {WriteEvent("ib", s)} ELSE wlog
                     /\ icon_buffer' = "ib"
                     /\ pc' = "fill"
       ELSE /\ icon_buffer' = "empty"
            /\ pc' = "fill"
            /\ UNCHANGED <<ib, wlog>>
    /\ UNCHANGED <<inputs, icon_arg, uncompressed, y_c, b, fresh, inflight, ops, lines,
                   issued, used, out, call, out1, vecvars, pixvars>>

\* the pixel loop of a row: classify, pack, store
RowPixels ==
    /\ pc = "fill"
    /\ LET s == BufferSlot(y_c)
       IN  /\ b' = [b EXCEPT ![s] =
                      [ i \in ByteIdx |-> IF i \in WrittenBytes THEN PackedByte(i) ELSE b[s][i] ]]
           /\ fresh' = WrittenBytes
           /\ wlog' = IF WrittenBytes # {} THEN wlog \cup {WriteEvent("b", s)} ELSE wlog
    /\ pc' = "wait"
    /\ UNCHANGED <<inputs, icon_arg, uncompressed, y_c, icon_buffer, ib, inflight, ops, lines,
                   issued, used, out, call, out1, vecvars, pixvars>>

\* dma2d_wait_for_transfer() inside the loop
Wait ==
    /\ pc = "wait"
    /\ TransferDone
    /\ ops' = Append(ops, "wait")
    /\ issued' = {}
    /\ pc' = "blend"
    /\ UNCHANGED <<inputs, icon_arg, uncompressed, y_c, icon_buffer, b, ib, fresh, inflight,
                   lines, wlog, used, out, call, out1, vecvars, pixvars>>

\* dma2d_start_blend(icon_buffer, loader_buffer, r.width()) and the loop increment
StartBlend ==
    /\ pc = "blend"
    /\ LET s == BufferSlot(y_c)
           t == [row |-> y_c, loader |-> s,
                 icon |-> IF icon_buffer = "ib" THEN s ELSE 2,
                 width |-> RectWidth(r)]
           src == {<<"b", s>>} \cup (IF icon_buffer = "ib" THEN {<<"ib", s>>} ELSE {})
       IN  /\ inflight' = inflight \cup {t}
           /\ lines' = Append(lines, [row |-> y_c, slot |-> s, buf |-> b[s], fresh |-> fresh])
           /\ issued' = issued \cup src
           /\ used' = used \cup src
    /\ ops' = Append(ops, "start")
    /\ y_c' = y_c + 1
    /\ pc' = "row"
    /\ UNCHANGED <<inputs, icon_arg, uncompressed, icon_buffer, b, ib, fresh,
                   wlog, out, call, out1, vecvars, pixvars>>

\* dma2d_wait_for_transfer() after the loop, and return
FinalWait ==
    /\ pc = "final_wait"
    /\ TransferDone
    /\ ops' = Append(ops, "wait")
    /\ issued' = {}
    /\ pc' = "done"
    /\ UNCHANGED <<inputs, icon_arg, uncompressed, y_c, icon_buffer, b, ib, fresh, inflight,
                   lines, wlog, used, out, call, out1, vecvars, pixvars>>

\* the transfer engine finishes a transfer: the blended line has gone to the display
DmaComplete ==
    /\ \E t \in inflight :
          /\ out' = Append(out, BlendLine(t))
          /\ inflight' = inflight \ {t}
    /\ UNCHANGED <<inputs, pc, icon_arg, uncompressed, y_c, icon_buffer, b, ib, fresh,
                   ops, lines, wlog, issued, used, call, out1, vecvars, pixvars>>

\* the caller renders the same arguments a second time
CallAgain ==
    /\ pc = "done" /\ call = 1
    /\ call' = 2
    /\ out1' = out
    /\ out' = << >>
    /\ pc' = "uncompress"
    /\ icon_arg' = NoIconArg /\ uncompressed' = FALSE
    /\ ops' = << >> /\ lines' = << >> /\ wlog' = {} /\ issued' = {} /\ used' = {} /\ fresh' = {}
    /\ icon_buffer' = "empty"
    /\ UNCHANGED <<inputs, y_c, b, ib, inflight, vecvars, pixvars>>

Next ==
    \/ LoaderUncompress
    \/ SetupSoftware \/ SwRow \/ SwFlush
    \/ SetupDma2d \/ RowIcon \/ RowPixels \/ Wait \/ StartBlend \/ FinalWait
    \/ DmaComplete
    \/ CallAgain

Spec == Init /\ [][Next]_vars

(***************************************************************************)
(* Geometry model: get_loader_vectors and the flags of loader_rust applied *)
(* to one (indeterminate, progress) input.                                 *)
(***************************************************************************)
MaxProgress == 1100


InitVec ==
    /\ v_pc = "call"
    /\ v_progress \in 0..MaxProgress
    /\ v_indet \in BOOLEAN
    /\ v_result = << >> /\ v_lookups = << >> /\ v_flags = << >>
    /\ PixIdle /\ RenderIdle

GetLoaderVectors ==
    /\ v_pc = "call"
    /\ v_pc' = "ret"
    /\ v_result' = get_loader_vectors(v_indet, v_progress)
    /\ v_lookups' = loader_lookups(v_indet, v_progress)
    /\ v_flags' = << ShowAll(v_indet, v_progress), Inverted(v_indet, v_progress) >>
    /\ UNCHANGED <<v_progress, v_indet, pixvars, rvars>>

NextVec == GetLoaderVectors
SpecVec == InitVec /\ [][NextVec]_vars

(***************************************************************************)
(* Classifier model: loader_get_pixel_color_idx applied to one pixel, and  *)
(* each of its two branches swept over the squared distance d.             *)
(***************************************************************************)
MaxCoord == 61
MaxRow == 2
MaxD == 3700

VecSamples == {PointZero} \cup { get_vector(a) : a \in {0, 100, 180, 324} }
CenterSamples == { PointZero, Pt(WIDTH \div 2, HEIGHT \div 2) }

Branch(member, d) == BandLookup(FALSE, member, d)

InitPix ==
    /\ VecIdle /\ RenderIdle
    /\ \/ /\ c_pc = "call"
          /\ c_args \in [ show_all : BOOLEAN, inverted : BOOLEAN,
                          end_vector : VecSamples, start_vector : VecSamples,
                          dx : -MaxCoord..MaxCoord, dy : -MaxRow..MaxRow,
                          center : CenterSamples ]
          /\ c_res = 0
          /\ s_member = FALSE /\ s_d = 0 /\ s_val = 0 /\ s_prev = 0 /\ s_peaked = FALSE
       \/ /\ c_pc = "sweep" /\ c_args = << >> /\ c_res = 0
          /\ s_member \in BOOLEAN
          /\ s_d = 0
          /\ s_val = Branch(s_member, 0)
          /\ s_prev = s_val
          /\ s_peaked = FALSE

Classify ==
    /\ c_pc = "call"
    /\ c_pc' = "ret"
    /\ c_res' = loader_get_pixel_color_idx(c_args.show_all, c_args.inverted, c_args.end_vector,
                                           NStart(c_args.start_vector),
                                           c_args.center.x + c_args.dx, c_args.center.y + c_args.dy,
                                           c_args.center)
    /\ UNCHANGED <<c_args, s_member, s_d, s_val, s_prev, s_peaked, vecvars, rvars>>

BandStep ==
    /\ c_pc = "sweep"
    /\ s_d < MaxD
    /\ s_d' = s_d + 1
    /\ s_prev' = s_val
    /\ s_val' = Branch(s_member, s_d + 1)
    /\ s_peaked' = (s_peaked \/ s_val' < s_val)
    /\ UNCHANGED <<c_pc, c_args, c_res, s_member, vecvars, rvars>>

NextPix == Classify \/ BandStep
SpecPix == InitPix /\ [][NextPix]_vars

(***************************************************************************)
(* Properties of the geometry model                                        *)
(***************************************************************************)
MathAngle(x) == ((360 * x - ((360 * x) % 1000)) \div 1000) % 360

\* C3: determinate get_loader_vectors gives (vector(0), vector(angle)) for
\* p <= 500, the same two vectors swapped for 500 < p < 1000 and (origin,
\* origin) for p >= 1000; loader_rust's inverted flag is true exactly for p > 500.
C3_VectorsByProgress ==
    (v_pc = "ret" /\ ~v_indet) =>
        LET p == v_progress
            a == ((360 * p) \div 1000) % 360
        IN  /\ (p <= 500) => v_result = << get_vector(0), get_vector(a) >>
            /\ (p > 500 /\ p < 1000) => v_result = << get_vector(a), get_vector(0) >>
            /\ (p >= 1000) => v_result = << PointZero, PointZero >>
            /\ v_flags[2] = (p > 500)
            /\ (p = 500) => v_result[1] = get_vector(0) /\ v_result[2] # get_vector(0)
            /\ (p = 501) => v_result[2] = get_vector(0) /\ v_result[1] # get_vector(0)

C3_Witness ==
    /\ v_pc = "ret" /\ ~v_indet /\ v_progress = 501
    /\ v_result = << get_vector(180), get_vector(0) >>
    /\ v_flags[2]

\* C10: for progress in [0, 1000], both modes, every degree handed to
\* get_vector is the mathematical (360*x/1000) mod 360 and lies in 0..359.
C10_DegreesInRange ==
    (v_pc = "ret" /\ v_progress \in LOADER_MIN..LOADER_MAX) =>
        LET sp == IF v_indet THEN v_progress - LOADER_INDETERMINATE_WIDTH ELSE 0
            ep == IF v_indet THEN v_progress + LOADER_INDETERMINATE_WIDTH ELSE v_progress
        IN  /\ \A i \in 1..Len(v_lookups) :
                  /\ v_lookups[i] \in 0..359
                  /\ v_lookups[i] \in { MathAngle(sp), MathAngle(ep) }
            /\ v_indet => v_lookups = << MathAngle(sp), MathAngle(ep) >>

(***************************************************************************)
(* Properties of the classifier                                            *)
(***************************************************************************)
Abs(x) == IF x < 0 THEN -x ELSE x

\* C5: each branch of loader_get_pixel_color_idx, as a function of d, stays in
\* 0..15, never rises again once it has fallen, and changes by at most 1
\* between d and d+1.
C5_BandsSmooth ==
    (c_pc = "sweep") =>
        /\ s_val \in 0..15
        /\ Abs(s_val - s_prev) <= 1
        /\ s_peaked => s_val <= s_prev

C5_Witness ==
    /\ c_pc = "sweep" /\ ~s_member /\ s_d = OUTER_MAX + 1
    /\ s_peaked /\ s_val = 0 /\ s_prev = 0

\* C6: the classifier returns 0 for every pixel with d <= IN_INNER_ANTI,
\* whatever show_all, inverted and the vectors are.
C6_InnerDiskZero ==
    (c_pc = "ret" /\ c_args.dx * c_args.dx + c_args.dy * c_args.dy <= IN_INNER_ANTI) => c_res = 0

C6_Witness ==
    /\ c_pc = "ret" /\ c_res = 0
    /\ ~c_args.show_all /\ c_args.inverted
    /\ c_args.dx = 41 /\ c_args.dy = 1
    /\ ~Included(c_args.inverted, c_args.end_vector, NStart(c_args.start_vector),
                 c_args.dx, c_args.dy, PointZero)

(***************************************************************************)
(* Properties of the render model                                          *)
(***************************************************************************)
Rows == IF r.y1 > r.y0 THEN r.y1 - r.y0 ELSE 0
Cols == IF r.x1 > r.x0 THEN r.x1 - r.x0 ELSE 0
ColOf(k) == r.x0 + ((k - 1) % Cols)
RowOf(k) == r.y0 + ((k - 1) \div Cols)
Expected(xc, yc) == IF RectContains(Clamped, Pt(xc, yc)) THEN PixIdx(xc, yc) ELSE 0

\* C1: the hardware rasterizer never writes into a line buffer slot while a
\* transfer reading that slot is in flight, and never before a blocking wait
\* has followed the last transfer issued on that slot.
C1_NoWriteWhileInFlight == \A e \in wlog : ~e.busy /\ ~e.unwaited

C1_Witness ==
    /\ dma2d /\ inflight # {}
    /\ \E e \in wlog : e.kind = "b" /\ e.reuse /\ e.overlap
    /\ \E e \in wlog : e.kind = "ib" /\ e.reuse /\ e.overlap

\* C2: the engine operations of a call over N rows are N times (wait, start)
\* and one trailing wait; at most one transfer is outstanding at any time and
\* none when the call returns.
C2_WaitStartSequence ==
    /\ Cardinality(inflight) <= 1
    /\ \A i \in 1..Len(ops) : ops[i] = (IF i % 2 = 1 THEN "wait" ELSE "start")
    /\ Len(ops) <= 2 * Rows + 1
    /\ (dma2d /\ pc = "done") => (Len(ops) = 2 * Rows + 1 /\ inflight = {} /\ Len(out) = Rows)

C2_Witness ==
    /\ dma2d /\ pc = "done" /\ Rows = 3
    /\ ops = <<"wait", "start", "wait", "start", "wait", "start", "wait">>

\* intensity of the active branch, band by band
ActiveRef(d) ==
    IF d <= IN_INNER_ANTI \/ d > OUTER_MAX THEN 0
    ELSE IF d > INNER_MIN /\ d <= OUTER_OUT_ANTI THEN 15
    ELSE ActivePart(d)

Oversize ==
    /\ icon.some /\ icon.header_ok /\ icon.format = "GrayScaleEH"
    /\ (icon.width > LOADER_ICON_MAX_SIZE \/ icon.height > LOADER_ICON_MAX_SIZE)

NoIconPixel(xc, yc) ==
    IF RectContains(Clamped, Pt(xc, yc)) THEN ColorTable(FG, BG, PixIdx(xc, yc)) ELSE Pure(BG)
NoIconStream == [ k \in 1..(Rows * Cols) |-> NoIconPixel(ColOf(k), RowOf(k)) ] \o << Dirty >>

\* C7: an icon with a valid header and a width or height above
\* LOADER_ICON_MAX_SIZE is dropped: no decompression, no fatal error, the
\* rasterizer is called without icon and renders what it renders for icon = None.
C7_OversizeIconDropped ==
    (Oversize /\ pc \notin {"off", "uncompress"}) =>
        /\ pc # "fatal"
        /\ ~uncompressed
        /\ icon_arg = NoIconArg
        /\ ~UseIcon
        /\ \A e \in wlog : e.kind # "ib"
        /\ (~dma2d /\ pc = "done") => out = NoIconStream

C7_Witness ==
    /\ Oversize /\ icon.width = LOADER_ICON_MAX_SIZE + 1
    /\ pc = "done" /\ ~dma2d /\ Len(out) > 1

\* C8: rendering the same arguments twice gives identical output streams.
C8_Idempotent ==
    (call = 2 /\ pc = "done") => out = out1

\* C9: every nibble of a submitted loader line equals the intensity index the
\* software backend uses for that pixel and was written while processing
\* that row.
C9_LineMatchesSoftware ==
    \A i \in 1..Len(lines) : \A col \in 0..(Cols - 1) :
        /\ Nibble(lines[i].buf, col) = Expected(r.x0 + col, lines[i].row)
        /\ (col \div 2) \in lines[i].fresh
====
